---------------------------- MODULE Spec2Model ----------------------------
(***************************************************************************)
(* Model of src/app.py: the Dash callback update_graph of the LATAM        *)
(* payment-failure dashboard, and the three datasets it reads.             *)
(*                                                                         *)
(* Representation.                                                         *)
(*  - A date string ('2025-01-25') is the tuple <<2025, 1, 25>>.  A parsed *)
(*    date (pandas Timestamp at midnight) is the number of days since      *)
(*    2024-12-31, computed by ToDatetime.                                  *)
(*  - failure_pct, forecast, upper and lower are fixed-point numbers in    *)
(*    hundredths of a percent point (2.0 is 200).  The model's data values *)
(*    are multiples of 0.2, for which the multiplication by 2.5 is exact;  *)
(*    binary floating-point rounding is not modelled.                      *)
(*  - A callback invocation runs in a session-local frame (pc, args, df,   *)
(*    fig); its return value is out.  The datasets are module globals      *)
(*    shared by all invocations.                                           *)
(***************************************************************************)
EXTENDS Integers, Sequences, FiniteSets, TLC

VARIABLES
    csv_latam,   \* rows of latam_failure_pct.csv
    csv_ml,      \* rows of latam_ml_anomaly.csv
    csv_arima,   \* rows of arima_forecast.csv
    latam_df,    \* module global: observed series
    ml_df,       \* module global: anomaly series
    arima_df,    \* module global: forecast series
    pc,          \* per session: the next step of update_graph, or "idle"
    args,        \* per session: the arguments of the invocation
    df,          \* per session: the local df of update_graph
    fig,         \* per session: the local fig of update_graph
    out,         \* per session: the value returned by the last invocation
    runs         \* per session: spike-enabled invocations completed in a row

vars == <<csv_latam, csv_ml, csv_arima, latam_df, ml_df, arima_df,
          pc, args, df, fig, out, runs>>

store == <<latam_df, ml_df, arima_df>>
files == <<csv_latam, csv_ml, csv_arima>>

----------------------------------------------------------------------------
(* Bounds of the model.                                                    *)

\* Longest observed, anomaly or forecast file with freely chosen contents.
MaxLen == 3
\* Sessions whose invocations interleave under SpecConc.
NSessions == 2
\* Spike-enabled invocations a session completes in a row.
MaxRuns == 2

----------------------------------------------------------------------------
(* Program constants.                                                      *)

\* df['failure_pct'] > 3, in hundredths.
THRESHOLD == 300
\* fail_count * 5700
COST == 5700

\* The outcome of an evaluation: a value, or the exception it raises.
Return(v) == [exc |-> "", value |-> <<v>>]
Raise(e) == [exc |-> e, value |-> <<>>]

SPIKE_START == <<2025, 1, 25>>
SPIKE_END == <<2025, 1, 28>>

ROOT_CAUSE_INJECTED == "Root cause: Deployment A41 + Gateway v3-latam-02 (injected)"
ROOT_CAUSE_SPIKE == "Spike simulated due to Black Friday"

----------------------------------------------------------------------------
(* Dates.                                                                  *)

DaysInMonth == <<31, 28, 31, 30, 31, 30, 31, 31, 30, 31, 30, 31>>

RECURSIVE DaysBefore(_)
DaysBefore(m) == IF m <= 1 THEN 0 ELSE DaysBefore(m - 1) + DaysInMonth[m - 1]

\* pandas' parse of an ISO date string, as the days since 2024-12-31.
ToDatetime(s) == (s[1] - 2025) * 365 + DaysBefore(s[2]) + s[3]

\* pd.read_csv(..., parse_dates=['date']): the date column is parsed, the
\* other columns are kept.
ReadCsv(rows) ==
    [i \in DOMAIN rows |-> [rows[i] EXCEPT !.date = ToDatetime(rows[i].date)]]

----------------------------------------------------------------------------
(* Steps of update_graph, as operators on values.                          *)

\* Faulty variant: the bounds excluded.
InRangeStrict(d, start_date, end_date) ==
    ToDatetime(start_date) < d /\ d < ToDatetime(end_date)

\* (col >= start_date) & (col <= end_date), the strings parsed by pandas.
InRange(d, start_date, end_date) ==
    ToDatetime(start_date) <= d /\ d <= ToDatetime(end_date)

\* df[(df['date'] >= start_date) & (df['date'] <= end_date)]
RangeFilter(frame, start_date, end_date) ==
    SelectSeq(frame, LAMBDA r : InRange(r.date, start_date, end_date))

\* Faulty variant: the last day of the window excluded.
SpikeMaskShort(d) == ToDatetime(SPIKE_START) <= d /\ d < ToDatetime(SPIKE_END)

\* (df['date'] >= '2025-01-25') & (df['date'] <= '2025-01-28')
SpikeMask(d) == ToDatetime(SPIKE_START) <= d /\ d <= ToDatetime(SPIKE_END)

\* failure_pct * 2.5
Times25(v) == (v * 25) \div 10

\* Faulty variant: the multiplication without the mask.
SpikeEverywhere(frame, event_toggle) ==
    IF "bf" \in event_toggle
    THEN [i \in DOMAIN frame |->
            [frame[i] EXCEPT !.failure_pct = Times25(@)]]
    ELSE frame

\* if 'bf' in event_toggle: df.loc[spike_mask, 'failure_pct'] *= 2.5
ApplySpike(frame, event_toggle) ==
    IF "bf" \in event_toggle
    THEN [i \in DOMAIN frame |->
            IF SpikeMask(frame[i].date)
            THEN [frame[i] EXCEPT !.failure_pct = Times25(@)]
            ELSE frame[i]]
    ELSE frame

Column(frame, col) == [i \in DOMAIN frame |-> frame[i][col]]

\* go.Scatter(...): the attributes the callback sets; "auto" and "" stand
\* for an attribute left to plotly's default.
Scatter(x, y, mode, name, fill, showlegend) ==
    [x |-> x, y |-> y, mode |-> mode, name |-> name, fill |-> fill,
     showlegend |-> showlegend]

ObservedTrace(frame) ==
    Scatter(Column(frame, "date"), Column(frame, "failure_pct"),
            "lines+markers", "Failure %", "none", TRUE)

\* Faulty variant: the flag not consulted.
MlAnomaliesUnflagged(frame, start_date, end_date) ==
    SelectSeq(frame, LAMBDA r : InRange(r.date, start_date, end_date))

\* ml_df[(ml_df['ml_anomaly']) & (date >= start_date) & (date <= end_date)]
MlAnomalies(frame, start_date, end_date) ==
    SelectSeq(frame,
        LAMBDA r : r.ml_anomaly /\ InRange(r.date, start_date, end_date))

AnomalyTraces(frame, anomaly_method, start_date, end_date) ==
    IF anomaly_method = "ml"
    THEN LET ml_anomalies == MlAnomalies(frame, start_date, end_date)
         IN  <<Scatter(Column(ml_anomalies, "date"),
                       Column(ml_anomalies, "failure_pct"),
                       "markers", "ML Anomalies", "none", TRUE)>>
    ELSE <<>>

ForecastLine(o) ==
    Scatter(Column(o, "date"), Column(o, "forecast"),
            "lines", "ARIMA Forecast", "none", TRUE)
UpperBound(o) ==
    Scatter(Column(o, "date"), Column(o, "upper"), "auto", "", "none", FALSE)
LowerBound(o) ==
    Scatter(Column(o, "date"), Column(o, "lower"),
            "auto", "Forecast CI", "tonexty", TRUE)

\* Faulty variant: the lower bound added before the upper bound.
ForecastTracesLowerFirst(frame, forecast_choice, start_date, end_date) ==
    IF forecast_choice = "arima"
    THEN LET arima_overlay == RangeFilter(frame, start_date, end_date)
         IN  <<ForecastLine(arima_overlay), LowerBound(arima_overlay),
               UpperBound(arima_overlay)>>
    ELSE <<>>

\* Faulty variant: the two bound columns exchanged.
ForecastTracesSwapped(frame, forecast_choice, start_date, end_date) ==
    IF forecast_choice = "arima"
    THEN LET arima_overlay == RangeFilter(frame, start_date, end_date)
         IN  <<ForecastLine(arima_overlay),
               [UpperBound(arima_overlay)
                    EXCEPT !.y = Column(arima_overlay, "lower")],
               [LowerBound(arima_overlay)
                    EXCEPT !.y = Column(arima_overlay, "upper")]>>
    ELSE <<>>

\* if forecast_choice == 'arima': three add_trace calls on the slice of
\* arima_df; fill='tonexty' fills to the trace added just before.
ForecastTraces(frame, forecast_choice, start_date, end_date) ==
    IF forecast_choice = "arima"
    THEN LET arima_overlay == RangeFilter(frame, start_date, end_date)
         IN  <<ForecastLine(arima_overlay), UpperBound(arima_overlay),
               LowerBound(arima_overlay)>>
    ELSE <<>>

Layout ==
    [title |-> "LATAM Payment Failures with Forecast & Anomalies",
     xaxis_title |-> "Date", yaxis_title |-> "Failure %",
     template |-> "plotly_white", hovermode |-> "x unified"]

\* fig = go.Figure(); fig.add_trace(...) ...; fig.update_layout(...)
BuildFigure(frame, anomalies, forecasts, a) ==
    [data |-> <<ObservedTrace(frame)>>
              \o AnomalyTraces(anomalies, a.anomaly_method,
                               a.start_date, a.end_date)
              \o ForecastTraces(forecasts, a.forecast_choice,
                                a.start_date, a.end_date),
     layout |-> Layout]

\* f"{x:.1f}" of x = num / den, as a number of tenths (ties to even).
Fmt1(num, den) ==
    LET q == (num * 10) \div den
        r == (num * 10) % den
    IN  IF 2 * r > den \/ (2 * r = den /\ q % 2 = 1) THEN q + 1 ELSE q

\* Faulty variant: the threshold itself counted.
FailCountInclusive(frame) ==
    Len(SelectSeq(frame, LAMBDA r : r.failure_pct >= THRESHOLD))

\* len(df[df['failure_pct'] > 3])
FailCount(frame) ==
    Len(SelectSeq(frame, LAMBDA r : r.failure_pct > THRESHOLD))

\* (fail_count / user_count) * 100, shown with one decimal; Python raises
\* ZeroDivisionError on a zero divisor.
Percent(fail_count, user_count) ==
    IF user_count = 0 THEN Raise("ZeroDivisionError")
    ELSE Return(Fmt1(fail_count * 100, user_count))

\* Faulty variant: the division without its guard.
FailPctUnguarded(fail_count, user_count) == Percent(fail_count, user_count)

\* (fail_count / user_count) * 100 if user_count > 0 else 0
FailPct(fail_count, user_count) ==
    IF user_count > 0 THEN Percent(fail_count, user_count) ELSE Return(0)

\* The last line of the summary.
RootCause(event_toggle) ==
    IF "bf" \notin event_toggle THEN ROOT_CAUSE_INJECTED ELSE ROOT_CAUSE_SPIKE

\* The html.Div of the impact summary, or the exception raised building it.
Summary(frame, a) ==
    LET user_count == Len(frame)
        fail_count == FailCount(frame)
        fail_pct == FailPct(fail_count, user_count)
    IN  IF fail_pct.exc # "" THEN Raise(fail_pct.exc)
        ELSE Return([date_range |-> <<a.start_date, a.end_date>>,
                     user_count |-> user_count,
                     fail_count |-> fail_count,
                     fail_pct |-> fail_pct.value[1],
                     revenue |-> fail_count * COST,
                     root_cause |-> RootCause(a.event_toggle)])

\* update_graph as a function of the datasets and its arguments.
UpdateGraph(observed, anomalies, forecasts, a) ==
    LET frame == ApplySpike(RangeFilter(observed, a.start_date, a.end_date),
                            a.event_toggle)
        summary == Summary(frame, a)
    IN  IF summary.exc # "" THEN Raise(summary.exc)
        ELSE Return([fig |-> BuildFigure(frame, anomalies, forecasts, a),
                     summary |-> summary.value[1]])

----------------------------------------------------------------------------
(* The datasets the model is run on.                                       *)

NextDay(s) ==
    IF s[3] < DaysInMonth[s[2]] THEN <<s[1], s[2], s[3] + 1>>
    ELSE <<s[1], s[2] + 1, 1>>

RECURSIVE DayAfter(_, _)
DayAfter(s, n) == IF n = 0 THEN s ELSE DayAfter(NextDay(s), n - 1)

\* Files start the day before the spike window or on its third day, so that
\* both ends of the window have a row inside and a row outside.
FirstDates == {<<2025, 1, 24>>, <<2025, 1, 27>>}

\* 1.2 (3.0 when spiked), 3.0 (the threshold itself) and 3.2.
FailureValues == {120, 300, 320}

\* <<lower, forecast, upper>>
Bands == {<<180, 200, 220>>, <<200, 200, 200>>}

Lengths == 1..MaxLen

ObservedFiles ==
    UNION { UNION { { [i \in 1..n |-> [date |-> DayAfter(d, i - 1),
                                        failure_pct |-> v[i]]]
                      : v \in [1..n -> FailureValues] }
                    : n \in Lengths }
            : d \in FirstDates }

AnomalyFiles ==
    UNION { UNION { { [i \in 1..n |-> [date |-> DayAfter(d, i - 1),
                                        failure_pct |-> 300 + 20 * i,
                                        ml_anomaly |-> b[i]]]
                      : b \in [1..n -> BOOLEAN] }
                    : n \in Lengths }
            : d \in FirstDates }

ForecastFiles ==
    UNION { UNION { { [i \in 1..n |-> [date |-> DayAfter(d, i - 1),
                                        lower |-> b[i][1],
                                        forecast |-> b[i][2],
                                        upper |-> b[i][3]]]
                      : b \in [1..n -> Bands] }
                    : n \in Lengths }
            : d \in FirstDates }

BaseObserved ==
    <<[date |-> <<2025, 1, 24>>, failure_pct |-> 320],
      [date |-> <<2025, 1, 25>>, failure_pct |-> 200]>>
BaseAnomaly ==
    <<[date |-> <<2025, 1, 24>>, failure_pct |-> 320, ml_anomaly |-> TRUE],
      [date |-> <<2025, 1, 25>>, failure_pct |-> 200, ml_anomaly |-> FALSE]>>
BaseForecast ==
    <<[date |-> <<2025, 1, 24>>, lower |-> 180, forecast |-> 200, upper |-> 220],
      [date |-> <<2025, 1, 25>>, lower |-> 200, forecast |-> 220, upper |-> 260]>>

\* January 2025 at a constant 2.0.
JanuaryFlat ==
    [i \in 1..31 |-> [date |-> <<2025, 1, i>>, failure_pct |-> 200]]

Dataset(o, a, f) == [latam |-> o, ml |-> a, arima |-> f]

\* One file varies at a time; the other two are the base files.
Datasets ==
    { Dataset(o, BaseAnomaly, BaseForecast) : o \in ObservedFiles }
    \cup { Dataset(BaseObserved, a, BaseForecast) : a \in AnomalyFiles }
    \cup { Dataset(BaseObserved, BaseAnomaly, f) : f \in ForecastFiles }
    \cup { Dataset(JanuaryFlat, BaseAnomaly, BaseForecast) }

\* The dataset of the runs with several sessions: observed rows before, in
\* and after the spike window.
SharedObserved ==
    <<[date |-> <<2025, 1, 24>>, failure_pct |-> 320],
      [date |-> <<2025, 1, 25>>, failure_pct |-> 200],
      [date |-> <<2025, 1, 29>>, failure_pct |-> 120]>>

SharedDatasets == { Dataset(SharedObserved, BaseAnomaly, BaseForecast) }

----------------------------------------------------------------------------
(* The arguments a client sends.                                           *)

StartDates == {<<2025, 1, 25>>, <<2025, 1, 29>>}
EndDates == {<<2025, 1, 24>>, <<2025, 1, 28>>}

Args(s, e, fc, am, ev) ==
    [start_date |-> s, end_date |-> e, forecast_choice |-> fc,
     anomaly_method |-> am, event_toggle |-> ev]

\* The date picker starts at the first and last date of the observed
\* series; any other date string can be sent.
FilterStates ==
    { Args(s, e, fc, am, ev) :
        s \in StartDates \cup {csv_latam[1].date},
        e \in EndDates \cup {csv_latam[Len(csv_latam)].date},
        fc \in {"arima", "none"}, am \in {"none", "ml"},
        ev \in {{}, {"bf"}} }

\* Under SpecConc: the range reaches into the spike window; both overlays
\* on or both off.
ConcFilterStates ==
    { Args(<<2025, 1, 24>>, <<2025, 1, 28>>, o[1], o[2], ev) :
        o \in {<<"arima", "ml">>, <<"none", "none">>},
        ev \in {{}, {"bf"}} }

\* Under SpecPair: ranges that hold no date of the spike window (before it,
\* after it, inverted), every overlay choice.
PairFilterStates ==
    { Args(r[1], r[2], fc, am, ev) :
        r \in {<<<<2025, 1, 24>>, <<2025, 1, 24>>>>,
               <<<<2025, 1, 29>>, <<2025, 1, 30>>>>,
               <<<<2025, 1, 29>>, <<2025, 1, 24>>>>},
        fc \in {"arima", "none"}, am \in {"none", "ml"},
        ev \in {{}, {"bf"}} }

\* The values of the layout's components when a session opens the page.
DefaultArgs ==
    Args(csv_latam[1].date, csv_latam[Len(csv_latam)].date, "arima", "ml", {})

----------------------------------------------------------------------------
(* The state machine.                                                      *)

\* go.Figure()
NoFigure == [data |-> <<>>, layout |-> [k \in {} |-> ""]]

Sessions == DOMAIN pc

InitWith(datasets, n) ==
    /\ \E d \in datasets :
          /\ csv_latam = d.latam
          /\ csv_ml = d.ml
          /\ csv_arima = d.arima
    /\ latam_df = ReadCsv(csv_latam)
    /\ ml_df = ReadCsv(csv_ml)
    /\ arima_df = ReadCsv(csv_arima)
    /\ pc = [s \in 1..n |-> "idle"]
    /\ args = [s \in 1..n |-> DefaultArgs]
    /\ df = [s \in 1..n |-> <<>>]
    /\ fig = [s \in 1..n |-> NoFigure]
    /\ out = [s \in 1..n |-> <<>>]
    /\ runs = [s \in 1..n |-> 0]

Init == InitWith(Datasets, 1)
InitConc == InitWith(SharedDatasets, NSessions)
InitPair == InitWith(SharedDatasets, 2)

\* A client changes an input: Dash invokes update_graph with the inputs.
Request(s, a) ==
    /\ pc[s] \in {"idle", "error"}
    /\ runs[s] < MaxRuns
    /\ pc' = [pc EXCEPT ![s] = "copy"]
    /\ args' = [args EXCEPT ![s] = a]
    /\ df' = [df EXCEPT ![s] = <<>>]
    /\ fig' = [fig EXCEPT ![s] = NoFigure]
    /\ out' = [out EXCEPT ![s] = <<>>]
    /\ UNCHANGED <<files, store, runs>>

\* df = latam_df.copy()
Copy(s) ==
    /\ pc[s] = "copy"
    /\ df' = [df EXCEPT ![s] = latam_df]
    /\ pc' = [pc EXCEPT ![s] = "filter"]
    /\ UNCHANGED <<files, store, args, fig, out, runs>>

\* Faulty variant: the slice assigned to the module global as well.
SliceShared(s) ==
    /\ pc[s] = "filter"
    /\ df' = [df EXCEPT ![s] =
                RangeFilter(df[s], args[s].start_date, args[s].end_date)]
    /\ latam_df' = RangeFilter(latam_df, args[s].start_date, args[s].end_date)
    /\ pc' = [pc EXCEPT ![s] = "spike"]
    /\ UNCHANGED <<files, ml_df, arima_df, args, fig, out, runs>>

\* df = df[(df['date'] >= start_date) & (df['date'] <= end_date)]
Slice(s) ==
    /\ pc[s] = "filter"
    /\ df' = [df EXCEPT ![s] =
                RangeFilter(df[s], args[s].start_date, args[s].end_date)]
    /\ pc' = [pc EXCEPT ![s] = "spike"]
    /\ UNCHANGED <<files, store, args, fig, out, runs>>

\* Faulty variant: the spike written through to the shared series.
SpikeShared(s) ==
    /\ pc[s] = "spike"
    /\ df' = [df EXCEPT ![s] = ApplySpike(df[s], args[s].event_toggle)]
    /\ latam_df' = ApplySpike(latam_df, args[s].event_toggle)
    /\ pc' = [pc EXCEPT ![s] = "overlay"]
    /\ UNCHANGED <<files, ml_df, arima_df, args, fig, out, runs>>

\* if 'bf' in event_toggle: df.loc[spike_mask, 'failure_pct'] *= 2.5
Spike(s) ==
    /\ pc[s] = "spike"
    /\ df' = [df EXCEPT ![s] = ApplySpike(df[s], args[s].event_toggle)]
    /\ pc' = [pc EXCEPT ![s] = "overlay"]
    /\ UNCHANGED <<files, store, args, fig, out, runs>>

\* fig = go.Figure() ... fig.update_layout(...)
Overlay(s) ==
    /\ pc[s] = "overlay"
    /\ fig' = [fig EXCEPT ![s] = BuildFigure(df[s], ml_df, arima_df, args[s])]
    /\ pc' = [pc EXCEPT ![s] = "summary"]
    /\ UNCHANGED <<files, store, args, df, out, runs>>

\* The summary is built and (fig, summary) returned, or the exception of
\* the division leaves the callback without a return value.
Summarise(s) ==
    /\ pc[s] = "summary"
    /\ LET summary == Summary(df[s], args[s])
       IN  IF summary.exc # ""
           THEN /\ pc' = [pc EXCEPT ![s] = "error"]
                /\ out' = out
                /\ runs' = runs
           ELSE /\ pc' = [pc EXCEPT ![s] = "idle"]
                /\ out' = [out EXCEPT ![s] =
                             <<[fig |-> fig[s], summary |-> summary.value[1]]>>]
                /\ runs' = [runs EXCEPT ![s] =
                              IF "bf" \in args[s].event_toggle
                              THEN @ + 1 ELSE 0]
    /\ df' = [df EXCEPT ![s] = <<>>]
    /\ fig' = [fig EXCEPT ![s] = NoFigure]
    /\ UNCHANGED <<files, store, args>>

Next ==
    \/ \E s \in Sessions : \E a \in FilterStates : Request(s, a)
    \/ \E s \in Sessions : Copy(s)
    \/ \E s \in Sessions : Slice(s)
    \/ \E s \in Sessions : Spike(s)
    \/ \E s \in Sessions : Overlay(s)
    \/ \E s \in Sessions : Summarise(s)

NextConc ==
    \/ \E s \in Sessions : \E a \in ConcFilterStates : Request(s, a)
    \/ \E s \in Sessions : Copy(s)
    \/ \E s \in Sessions : Slice(s)
    \/ \E s \in Sessions : Spike(s)
    \/ \E s \in Sessions : Overlay(s)
    \/ \E s \in Sessions : Summarise(s)

NextPair ==
    \/ \E s \in Sessions : \E a \in PairFilterStates : Request(s, a)
    \/ \E s \in Sessions : Copy(s)
    \/ \E s \in Sessions : Slice(s)
    \/ \E s \in Sessions : Spike(s)
    \/ \E s \in Sessions : Overlay(s)
    \/ \E s \in Sessions : Summarise(s)

\* One session, every dataset and every argument.
Spec == Init /\ [][Next]_vars

\* NSessions sessions on one shared dataset, interleaved step by step.
SpecConc == InitConc /\ [][NextConc]_vars

\* Two sessions whose ranges hold no date of the spike window.
SpecPair == InitPair /\ [][NextPair]_vars

----------------------------------------------------------------------------
(* Vocabulary of the properties.                                           *)

\* The invocation of session s has returned.
Returned(s) == pc[s] = "idle" /\ out[s] # <<>>

Lo(s) == ToDatetime(args[s].start_date)
Hi(s) == ToDatetime(args[s].end_date)
Within(d, s) == Lo(s) <= d /\ d <= Hi(s)
SpikeOn(s) == "bf" \in args[s].event_toggle
WindowFirst == ToDatetime(<<2025, 1, 25>>)
WindowLast == ToDatetime(<<2025, 1, 28>>)
InWindow(d) == WindowFirst <= d /\ d <= WindowLast

\* The rows of the observed series in the range of session s.
Selected(s) == { i \in DOMAIN latam_df : Within(latam_df[i].date, s) }

\* v is w times 2.5.
IsTimes25(v, w) == v * 10 = w * 25

\* The traces of a figure that carry a given name or fill.
Named(f, name) == { k \in DOMAIN f.data : f.data[k].name = name }
Filled(f) == { k \in DOMAIN f.data : f.data[k].fill = "tonexty" }

\* The rows of the forecast series in the range of session s, in order.
ForecastInRange(s) == SelectSeq(arima_df, LAMBDA r : Within(r.date, s))

----------------------------------------------------------------------------
(* C1.  Range Filter: after the slice, df holds exactly the rows of the    *)
(* observed series with start_date <= date <= end_date (both inclusive,    *)
(* none in range dropped, none out of range kept), in the order of the     *)
(* observed series.                                                        *)
C1_RangeFilter ==
    \A s \in Sessions :
        pc[s] = "spike" =>
            /\ \A j \in DOMAIN df[s] :
                  /\ Within(df[s][j].date, s)
                  /\ \E i \in DOMAIN latam_df : latam_df[i] = df[s][j]
            /\ \A i \in Selected(s) :
                  \E j \in DOMAIN df[s] : df[s][j] = latam_df[i]
            /\ \A j, k \in DOMAIN df[s] :
                  j < k => df[s][j].date < df[s][k].date

\* A slice that keeps a row on each bound and leaves a row out.
C1_Witness ==
    \E s \in Sessions :
        /\ pc[s] = "spike"
        /\ Len(df[s]) >= 1
        /\ Len(df[s]) < Len(latam_df)
        /\ df[s][1].date = Lo(s)
        /\ df[s][Len(df[s])].date = Hi(s)

(* C2.  An inverted or empty selection is not an error: no invocation ends *)
(* in an exception, and when no observed row lies in the range the slice   *)
(* is empty and the summary reports 0 records, 0 high-failure days, 0.0 %  *)
(* and revenue 0.                                                          *)
C2_EmptySelection ==
    \A s \in Sessions :
        /\ pc[s] # "error"
        /\ Selected(s) = {} =>
              /\ pc[s] \in {"spike", "overlay", "summary"} => df[s] = <<>>
              /\ Returned(s) =>
                    /\ out[s][1].fig.data[1].x = <<>>
                    /\ out[s][1].summary.user_count = 0
                    /\ out[s][1].summary.fail_count = 0
                    /\ out[s][1].summary.fail_pct = 0
                    /\ out[s][1].summary.revenue = 0

\* An invocation with start_date > end_date has returned.
C2_Witness ==
    \E s \in Sessions :
        /\ Returned(s)
        /\ Lo(s) > Hi(s)
        /\ out[s][1].summary.user_count = 0

(* C3.  Spike Simulator: after the spike step, df has the dates of the     *)
(* sliced series in the same order; with the flag on, a row dated          *)
(* 2025-01-25 .. 2025-01-28 has 2.5 times the observed failure_pct and any *)
(* other row the observed one; with the flag off every row is unchanged.   *)
C3_SpikeSimulator ==
    \A s \in Sessions :
        pc[s] = "overlay" =>
            /\ { df[s][j].date : j \in DOMAIN df[s] }
                   = { latam_df[i].date : i \in Selected(s) }
            /\ Len(df[s]) = Cardinality(Selected(s))
            /\ \A j, k \in DOMAIN df[s] :
                  j < k => df[s][j].date < df[s][k].date
            /\ \A j \in DOMAIN df[s] : \A i \in DOMAIN latam_df :
                  latam_df[i].date = df[s][j].date =>
                      IF SpikeOn(s) /\ InWindow(df[s][j].date)
                      THEN IsTimes25(df[s][j].failure_pct,
                                     latam_df[i].failure_pct)
                      ELSE df[s][j].failure_pct = latam_df[i].failure_pct

\* The flag is on and df holds the last day of the window, multiplied, and
\* a day outside the window.
C3_Witness ==
    \E s \in Sessions :
        /\ pc[s] = "overlay"
        /\ SpikeOn(s)
        /\ \E j \in DOMAIN df[s] :
              /\ df[s][j].date = WindowLast
              /\ \E i \in DOMAIN latam_df :
                    /\ latam_df[i].date = WindowLast
                    /\ df[s][j].failure_pct > latam_df[i].failure_pct
        /\ \E j \in DOMAIN df[s] : ~InWindow(df[s][j].date)

\* The failure_pct of observed row i as the chart of session s shows it.
Shown(s, i) ==
    IF SpikeOn(s) /\ InWindow(latam_df[i].date)
    THEN (latam_df[i].failure_pct * 25) \div 10
    ELSE latam_df[i].failure_pct

High(s) == { i \in Selected(s) : Shown(s, i) > 300 }

(* C4.  Impact Summary: n is the number of rows in range, k the number of  *)
(* those whose (spiked) failure_pct is strictly above 3.0, the percentage  *)
(* is k/n*100 to one decimal (0 when n = 0), the revenue k * 5700, and the *)
(* narrative the placeholder line with the flag off and the spike line     *)
(* with it on.  For January 2025 at a constant 2.0 over the whole month:   *)
(* n = 31, k = 0, revenue 0 without the spike and n = 31, k = 4, 12.9 %,   *)
(* revenue 22800 with it.                                                  *)
C4_ImpactSummary ==
    \A s \in Sessions :
        Returned(s) =>
            LET sm == out[s][1].summary
                n == Cardinality(Selected(s))
                k == Cardinality(High(s))
            IN  /\ sm.user_count = n
                /\ sm.fail_count = k
                /\ n = 0 => sm.fail_pct = 0
                /\ n > 0 => /\ 2 * (sm.fail_pct * n - 1000 * k) <= n
                            /\ 2 * (1000 * k - sm.fail_pct * n) <= n
                /\ sm.revenue = k * 5700
                /\ sm.root_cause =
                       IF SpikeOn(s)
                       THEN "Spike simulated due to Black Friday"
                       ELSE "Root cause: Deployment A41 + Gateway v3-latam-02 (injected)"
                /\ (csv_latam = JanuaryFlat /\ Lo(s) = 1 /\ Hi(s) = 31) =>
                       /\ n = 31
                       /\ ~SpikeOn(s) =>
                              (k = 0 /\ sm.fail_pct = 0 /\ sm.revenue = 0)
                       /\ SpikeOn(s) =>
                              (k = 4 /\ sm.fail_pct = 129 /\ sm.revenue = 22800)

\* Scenario B has returned.
C4_Witness ==
    \E s \in Sessions :
        /\ Returned(s)
        /\ csv_latam = JanuaryFlat
        /\ SpikeOn(s)
        /\ out[s][1].summary.user_count = 31
        /\ out[s][1].summary.fail_count = 4
        /\ out[s][1].summary.fail_pct = 129
        /\ out[s][1].summary.revenue = 22800

\* The anomaly rows that are flagged and in the range of session s.
Flagged(s) == { i \in DOMAIN ml_df : ml_df[i].ml_anomaly /\ Within(ml_df[i].date, s) }

(* C5.  Anomaly Overlay: with anomaly_method = ml the figure has one       *)
(* anomaly layer, holding exactly the anomaly rows that are flagged and    *)
(* whose date is in the range; with anomaly_method = none it has no        *)
(* anomaly layer.                                                          *)
C5_AnomalyOverlay ==
    \A s \in Sessions :
        Returned(s) =>
            LET f == out[s][1].fig
                layers == Named(f, "ML Anomalies")
            IN  IF args[s].anomaly_method = "ml"
                THEN /\ layers = {2}
                     /\ f.data[2].mode = "markers"
                     /\ Len(f.data[2].x) = Cardinality(Flagged(s))
                     /\ Len(f.data[2].y) = Len(f.data[2].x)
                     /\ { <<f.data[2].x[j], f.data[2].y[j]>> :
                              j \in DOMAIN f.data[2].x }
                          = { <<ml_df[i].date, ml_df[i].failure_pct>> :
                                  i \in Flagged(s) }
                ELSE /\ layers = {}
                     /\ \A k \in DOMAIN f.data : f.data[k].mode # "markers"

\* Scenario D: a flagged row in range, a flagged row out of range and an
\* unflagged row in range; the layer shows one point.
C5_Witness ==
    \E s \in Sessions :
        /\ Returned(s)
        /\ args[s].anomaly_method = "ml"
        /\ Len(out[s][1].fig.data[2].x) = 1
        /\ \E i \in DOMAIN ml_df :
              ml_df[i].ml_anomaly /\ ~Within(ml_df[i].date, s)
        /\ \E i \in DOMAIN ml_df :
              ~ml_df[i].ml_anomaly /\ Within(ml_df[i].date, s)

(* C6.  Forecast Overlay ordering: with forecast_overlay = arima the       *)
(* figure ends with exactly three forecast layers over the forecast rows   *)
(* in range: the forecast line, then the upper bound, then the lower       *)
(* bound, which alone carries the fill-to-previous directive, so that the  *)
(* layer right before it is the upper bound.  With forecast_overlay = none *)
(* the figure has no forecast layer.                                       *)
C6_ForecastOrder ==
    \A s \in Sessions :
        Returned(s) =>
            LET f == out[s][1].fig
                n == Len(f.data)
                o == ForecastInRange(s)
                base == IF args[s].anomaly_method = "ml" THEN 2 ELSE 1
            IN  IF args[s].forecast_choice = "arima"
                THEN /\ n = base + 3
                     /\ Named(f, "ARIMA Forecast") = {n - 2}
                     /\ f.data[n - 2].y = [i \in DOMAIN o |-> o[i].forecast]
                     /\ f.data[n - 1].y = [i \in DOMAIN o |-> o[i].upper]
                     /\ f.data[n - 1].fill = "none"
                     /\ f.data[n - 1].showlegend = FALSE
                     /\ Named(f, "Forecast CI") = {n}
                     /\ f.data[n].y = [i \in DOMAIN o |-> o[i].lower]
                     /\ Filled(f) = {n}
                     /\ \A k \in {n - 2, n - 1, n} :
                           f.data[k].x = [i \in DOMAIN o |-> o[i].date]
                ELSE /\ n = base
                     /\ Named(f, "ARIMA Forecast") = {}
                     /\ Named(f, "Forecast CI") = {}
                     /\ Filled(f) = {}

\* Both overlays are drawn and the band has a point where the bounds differ.
C6_Witness ==
    \E s \in Sessions :
        /\ Returned(s)
        /\ args[s].forecast_choice = "arima"
        /\ Len(out[s][1].fig.data) = 5
        /\ \E i \in DOMAIN out[s][1].fig.data[4].y :
              out[s][1].fig.data[4].y[i] > out[s][1].fig.data[5].y[i]

----------------------------------------------------------------------------
(* Properties of several invocations (SpecPair, SpecConc).                 *)

\* Sessions s and t have returned for the same range and overlays, s with
\* the spike flag and t without, and the range holds no date of the window.
SpikeTwins(s, t) ==
    /\ Returned(s) /\ Returned(t)
    /\ SpikeOn(s) /\ ~SpikeOn(t)
    /\ args[s].start_date = args[t].start_date
    /\ args[s].end_date = args[t].end_date
    /\ args[s].forecast_choice = args[t].forecast_choice
    /\ args[s].anomaly_method = args[t].anomaly_method
    /\ \A d \in WindowFirst..WindowLast : ~Within(d, s)

(* C7, as stated.  For a range that holds no date of the spike window, the *)
(* output (figure and summary) with the spike flag on equals the output    *)
(* with the flag off.                                                      *)
C7_SpikeInvisible ==
    \A s, t \in Sessions : SpikeTwins(s, t) => out[s] = out[t]

(* C7, amended.  For such a range the figure and the summary's date range, *)
(* record count, high-failure count, percentage and revenue are equal with *)
(* the flag on and off; the narrative line alone follows the flag.         *)
C7_SpikeInvisibleButNarrative ==
    \A s, t \in Sessions :
        SpikeTwins(s, t) =>
            /\ out[s][1].fig = out[t][1].fig
            /\ [out[s][1].summary EXCEPT !.root_cause = ""]
                   = [out[t][1].summary EXCEPT !.root_cause = ""]
            /\ out[s][1].summary.root_cause
                   = "Spike simulated due to Black Friday"
            /\ out[t][1].summary.root_cause
                   = "Root cause: Deployment A41 + Gateway v3-latam-02 (injected)"

\* Two such invocations have returned on a range that holds observed rows.
C7_Witness ==
    \E s, t \in Sessions :
        /\ SpikeTwins(s, t)
        /\ out[s][1].summary.user_count > 0
        /\ out[s][1].summary.fail_count > 0

(* C8.  Data Store immutability: in every state, whatever invocations have *)
(* run or are running, the observed, anomaly and forecast series are the   *)
(* values loaded from the files at startup.                                *)
C8_StoreImmutable ==
    /\ latam_df = ReadCsv(csv_latam)
    /\ ml_df = ReadCsv(csv_ml)
    /\ arima_df = ReadCsv(csv_arima)

\* A session holds a spiked private copy while another is in the middle of
\* its own invocation, after a spike-enabled invocation has returned.
C8_Witness ==
    \E s, t \in Sessions :
        /\ s # t
        /\ pc[s] = "overlay" /\ SpikeOn(s)
        /\ \E j \in DOMAIN df[s] : \E i \in DOMAIN latam_df :
              /\ latam_df[i].date = df[s][j].date
              /\ df[s][j].failure_pct > latam_df[i].failure_pct
        /\ pc[t] \in {"filter", "spike", "overlay", "summary"}
        /\ runs[s] >= 1

(* C9.  Invocations are not cumulative and sessions are independent: every *)
(* returned output is update_graph of the startup datasets and the         *)
(* invocation's own arguments; with the spike flag on, every point of the  *)
(* observed layer in the window shows 2.5 times the value in the file,     *)
(* however many spike-enabled invocations came before; and two sessions    *)
(* that returned for equal arguments hold equal outputs.                   *)
C9_RunsIndependent ==
    /\ \A s \in Sessions :
          Returned(s) =>
              /\ out[s] = UpdateGraph(ReadCsv(csv_latam), ReadCsv(csv_ml),
                                      ReadCsv(csv_arima), args[s]).value
              /\ LET obs == out[s][1].fig.data[1]
                 IN  \A j \in DOMAIN obs.x : \A i \in DOMAIN csv_latam :
                        (ToDatetime(csv_latam[i].date) = obs.x[j]
                            /\ InWindow(obs.x[j])) =>
                          IF SpikeOn(s)
                          THEN IsTimes25(obs.y[j], csv_latam[i].failure_pct)
                          ELSE obs.y[j] = csv_latam[i].failure_pct
    /\ \A s, t \in Sessions :
          (Returned(s) /\ Returned(t) /\ args[s] = args[t]) => out[s] = out[t]

\* A session has returned from its second spike-enabled invocation in a
\* row, showing a spiked point, and another session holds the same output
\* for the same arguments.
C9_Witness ==
    \E s, t \in Sessions :
        /\ s # t
        /\ Returned(s) /\ Returned(t)
        /\ runs[s] >= 2
        /\ SpikeOn(s)
        /\ args[s] = args[t]
        /\ \E j \in DOMAIN out[s][1].fig.data[1].x :
              InWindow(out[s][1].fig.data[1].x[j])

=============================================================================
